---- MODULE Spec2Model ----
(***************************************************************************)
(* A model of the bugpoint reducer (src/src/bugpoint.rs): the pass driver  *)
(* `reduce`, the six mutators and the crash oracle `check_for_crash`.      *)
(*                                                                         *)
(* A Function is a record                                                  *)
(*   layout  : sequence of blocks [ebb |-> id, insts |-> sequence of ids]  *)
(*   dfg     : sequence of instruction data, indexed by instruction id     *)
(*             [opcode, results, args, dest, ref]; ref is the entity the   *)
(*             instruction's format refers to (FuncRef of a call, ...)     *)
(*   params  : sequence, indexed by ebb id, of the ebb's parameter values  *)
(*   aliases : set of pairs <<alias value, value it stands for>>           *)
(*   ext_funcs, signatures, stack_slots, global_values : the entity tables *)
(* Entity ids (ebbs, instructions) are positive numbers; None is 0.        *)
(* Values are pairs <<defining instruction id, result index>>; <<0, 0>> is *)
(* the entry block's parameter and <<0, 1>> an alias of it.                *)
(***************************************************************************)
EXTENDS Integers, Sequences, FiniteSets, TLC

\* Bound of the model: the number of instructions of an input function.
MaxInsts == 3

\* `for pass_idx in 0..100`
MaxPasses == 100

\* `for _ in 0..10000`
MaxSteps == 10000

\* The phases 0..5 construct a mutator, any other phase ends the pass.
NumPhases == 6

\* Option::None of an entity reference.
None == 0

Opcodes ==
  {"call", "multi", "jump", "iconst", "f32const", "f64const", "trap",
   "func_addr", "call_indirect", "stack_load", "stack_store", "regspill",
   "regfill", "global_value"}

ConstOpcodes == {"iconst", "f32const", "f64const"}

----------------------------------------------------------------------------
(* Sequences *)

RemoveAt(s, j) == SubSeq(s, 1, j - 1) \o SubSeq(s, j + 1, Len(s))

InsertAt(s, j, x) == SubSeq(s, 1, j - 1) \o <<x>> \o SubSeq(s, j, Len(s))

IndexOf(s, x) ==
  IF \E j \in 1..Len(s) : s[j] = x
  THEN CHOOSE j \in 1..Len(s) : s[j] = x
  ELSE 0

\* Op applied to the value of x: x is evaluated once, before the call.
Apply(Op(_), x) == CHOOSE r \in {Op(v) : v \in {x}} : TRUE

----------------------------------------------------------------------------
(* The layout interface of the IR, as the reducer consumes it. *)

\* Position of the block in the layout, 0 when the block is not inserted.
EbbPos(f, e) ==
  IF \E k \in 1..Len(f.layout) : f.layout[k].ebb = e
  THEN CHOOSE k \in 1..Len(f.layout) : f.layout[k].ebb = e
  ELSE 0

\* Position of the block holding the instruction, 0 when it is not inserted.
InstPos(f, i) ==
  IF \E k \in 1..Len(f.layout) : IndexOf(f.layout[k].insts, i) # 0
  THEN CHOOSE k \in 1..Len(f.layout) : IndexOf(f.layout[k].insts, i) # 0
  ELSE 0

RECURSIVE EbbsOf(_)
EbbsOf(l) == IF l = <<>> THEN <<>> ELSE <<Head(l).ebb>> \o EbbsOf(Tail(l))

ebbs(f) == EbbsOf(f.layout)

ebb_insts(f, e) ==
  IF EbbPos(f, e) = 0 THEN <<>> ELSE f.layout[EbbPos(f, e)].insts

\* All the instructions of the layout, in layout order.
RECURSIVE InstsOf(_)
InstsOf(l) == IF l = <<>> THEN <<>> ELSE Head(l).insts \o InstsOf(Tail(l))

layout_insts(f) == InstsOf(f.layout)

entry_block(f) == IF Len(f.layout) = 0 THEN None ELSE f.layout[1].ebb

first_inst(f, e) ==
  IF ebb_insts(f, e) = <<>> THEN None ELSE Head(ebb_insts(f, e))

last_inst(f, e) ==
  IF ebb_insts(f, e) = <<>> THEN None
  ELSE ebb_insts(f, e)[Len(ebb_insts(f, e))]

\* The links of a removed instruction or block are cleared: it has no next.
next_inst(f, i) ==
  LET k == InstPos(f, i) IN
  IF k = 0 THEN None
  ELSE LET s == f.layout[k].insts
           j == IndexOf(s, i)
       IN IF j < Len(s) THEN s[j + 1] ELSE None

prev_inst(f, i) ==
  LET k == InstPos(f, i) IN
  IF k = 0 THEN None
  ELSE LET s == f.layout[k].insts
           j == IndexOf(s, i)
       IN IF j > 1 THEN s[j - 1] ELSE None

next_ebb(f, e) ==
  LET k == EbbPos(f, e) IN
  IF k = 0 \/ k = Len(f.layout) THEN None ELSE f.layout[k + 1].ebb

remove_inst(f, i) ==
  LET k == InstPos(f, i) IN
  IF k = 0 THEN f
  ELSE [f EXCEPT !.layout[k].insts = RemoveAt(@, IndexOf(@, i))]

remove_ebb(f, e) ==
  LET k == EbbPos(f, e) IN
  IF k = 0 THEN f ELSE [f EXCEPT !.layout = RemoveAt(@, k)]

append_inst(f, i, e) ==
  LET k == EbbPos(f, e) IN
  IF k = 0 THEN f ELSE [f EXCEPT !.layout[k].insts = Append(@, i)]

\* Insert instruction i before instruction `before`.
insert_inst(f, i, before) ==
  LET k == InstPos(f, before) IN
  IF k = 0 THEN f
  ELSE [f EXCEPT !.layout[k].insts = InsertAt(@, IndexOf(@, before), i)]

----------------------------------------------------------------------------
(* The data-flow graph interface. *)

inst_results(f, i) == f.dfg[i].results

opcode(f, i) == f.dfg[i].opcode

is_branch(f, i) == f.dfg[i].opcode = "jump"

\* The second result of a two-result instruction is an f64, all else i32.
value_type(v) == IF v[2] = 1 /\ v[1] # 0 THEN "f64" ELSE "i32"

\* dfg.replace(inst).<opcode>(): new data on the old instruction id; the
\* results stay attached.
replace(f, i, op) ==
  [f EXCEPT !.dfg[i] = [opcode |-> op, results |-> @.results,
                        args |-> <<>>, dest |-> None, ref |-> None]]

clear_results(f, i) == [f EXCEPT !.dfg[i].results = <<>>]

\* A new instruction id, with result value r.
make_inst(f, op, r) ==
  [f EXCEPT !.dfg = Append(@, [opcode |-> op, results |-> <<r>>,
                               args |-> <<>>, dest |-> None, ref |-> None])]

IsAlias(f, v) == \E p \in f.aliases : p[1] = v

RECURSIVE resolve_alias(_, _)
resolve_alias(f, v) ==
  IF IsAlias(f, v)
  THEN resolve_alias(f, (CHOOSE p \in f.aliases : p[1] = v)[2])
  ELSE v

RECURSIVE ResolveArgs(_, _)
ResolveArgs(f, as) ==
  IF as = <<>> THEN <<>>
  ELSE <<resolve_alias(f, Head(as))>> \o ResolveArgs(f, Tail(as))

resolve_aliases_in_arguments(f, i) ==
  [f EXCEPT !.dfg[i].args = ResolveArgs(f, @)]

change_to_alias(f, v, target) ==
  [f EXCEPT !.aliases = {p \in @ : p[1] # v} \cup {<<v, target>>}]

detach_ebb_params(f, e) == [f EXCEPT !.params[e] = <<>>]

\* The predecessors of a block: the branches of the layout that jump to it,
\* as pairs <<block of the branch, branch>>.
Preds(f, e) ==
  {<<f.layout[InstPos(f, i)].ebb, i>> :
     i \in {j \in 1..Len(f.dfg) : InstPos(f, j) # 0 /\ is_branch(f, j)
                                  /\ f.dfg[j].dest = e}}

----------------------------------------------------------------------------
(* Counting and alias resolution. *)

ebb_count(f) == Len(f.layout)

inst_count(f) == Len(layout_insts(f))

RECURSIVE ResolveAll(_, _)
ResolveAll(f, is) ==
  IF is = <<>> THEN f
  ELSE LET Rest(f1) == ResolveAll(f1, Tail(is))
       IN Apply(Rest, resolve_aliases_in_arguments(f, Head(is)))

resolve_aliases(f) == ResolveAll(f, layout_insts(f))

----------------------------------------------------------------------------
(* The input functions. *)

InputKinds == {"call", "multi", "jump", "loop", "far"}

\* Instruction i of an input: a call with one result and an aliased argument
\* (of the second external function at an odd position, of the first at an
\* even one), a two-result instruction, a jump to the next block (to its
\* own block when there is none), ("loop") a jump to its own block, or
\* ("far") a jump to the block after the next one (to its own block when
\* there is none).
InputInst(kind, i, b, nb) ==
  [opcode  |-> IF kind \in {"loop", "far"} THEN "jump" ELSE kind,
   results |-> IF kind = "call" THEN << <<i, 0>> >>
               ELSE IF kind = "multi" THEN << <<i, 0>>, <<i, 1>> >>
               ELSE <<>>,
   args    |-> IF kind = "call" THEN << <<0, 1>> >> ELSE <<>>,
   dest    |-> IF kind = "jump" THEN (IF b < nb THEN b + 1 ELSE b)
               ELSE IF kind = "loop" THEN b
               ELSE IF kind = "far" THEN (IF b + 2 <= nb THEN b + 2 ELSE b)
               ELSE None,
   ref     |-> IF kind = "call" THEN (IF i % 2 = 1 THEN 2 ELSE 1) ELSE None]

\* Block of instruction i when the blocks end after the positions in cuts.
BlockOf(i, cuts) == 1 + Cardinality({c \in cuts : c < i})

RECURSIVE InputLayout(_, _, _, _)
InputLayout(i, n, cuts, acc) ==
  IF i > n THEN acc
  ELSE IF i = 1 \/ (i - 1) \in cuts
       THEN InputLayout(i + 1, n, cuts,
                        Append(acc, [ebb |-> Len(acc) + 1, insts |-> <<i>>]))
       ELSE InputLayout(i + 1, n, cuts,
                        [acc EXCEPT ![Len(acc)].insts = Append(@, i)])

RECURSIVE InputDfg(_, _, _, _)
InputDfg(i, kinds, cuts, acc) ==
  IF i > Len(kinds) THEN acc
  ELSE InputDfg(i + 1, kinds, cuts,
                Append(acc, InputInst(kinds[i], i, BlockOf(i, cuts),
                                      1 + Cardinality(cuts))))

RECURSIVE InputParams(_, _)
InputParams(b, nb) ==
  IF b > nb THEN <<>>
  ELSE <<(IF b = 1 THEN << <<0, 0>> >> ELSE <<>>)>> \o InputParams(b + 1, nb)

GlobalValueTables == {<<"vmctx", "symbol">>, <<"vmctx", "load">>}

InputFunction(kinds, cuts, gv) ==
  [layout        |-> InputLayout(1, Len(kinds), cuts, <<>>),
   dfg           |-> InputDfg(1, kinds, cuts, <<>>),
   params        |-> InputParams(1, 1 + Cardinality(cuts)),
   aliases       |-> {<< <<0, 1>>, <<0, 0>> >>},
   ext_funcs     |-> <<[name |-> "f0", signature |-> 1],
                       [name |-> "f1", signature |-> 3]>>,
   signatures    |-> <<"sig0", "sig1", "sig2">>,
   stack_slots   |-> <<"ss0">>,
   global_values |-> gv]

NoFunction ==
  [layout |-> <<>>, dfg |-> <<>>, params |-> <<>>, aliases |-> {},
   ext_funcs |-> <<>>, signatures |-> <<>>, stack_slots |-> <<>>,
   global_values |-> <<>>]

----------------------------------------------------------------------------
(* The crash oracle.  What the verifier and the backend do with a function *)
(* is outside the reducer; a profile fixes it: the backend panics when the *)
(* weights of the instructions of the layout add up to the threshold T.    *)
(* An instruction weighs w[its opcode], plus wa when one of its arguments  *)
(* is an unresolved alias, plus we when it is a call in the entry block.   *)
(* The panic message names the first instruction of the layout that weighs *)
(* anything.                                                               *)

Profile(callW, multiW, constW, trapW, aliasW, threshold) ==
  [w  |-> [op \in Opcodes |->
             IF op = "call" THEN callW
             ELSE IF op = "multi" THEN multiW
             ELSE IF op \in ConstOpcodes THEN constW
             ELSE IF op = "trap" THEN trapW
             ELSE 0],
   wa |-> aliasW,
   we |-> 0,
   T  |-> threshold]

CrashProfiles ==
  { Profile(1, 0, 0, 0, 0, 1),    \* a call is present (the test build's oracle)
    Profile(1, 0, 0, 0, 0, 2),    \* two calls are present
    Profile(1, 0, 0, 2, 0, 2),    \* two calls, or a trap
    Profile(1, 0, 2, 0, 0, 2),    \* two calls, or a constant
    Profile(0, 2, 1, 0, 0, 2),    \* two values defined by multi or constants
    Profile(0, 0, 0, 0, 1, 1),    \* an argument is an unresolved alias
    [Profile(1, 0, 0, 0, 0, 4) EXCEPT !.w["jump"] = 1, !.we = 1],
                                  \* calls and jumps, calls in the entry
                                  \* block counting twice, come to four
    [Profile(1, 1, 0, 0, 0, 3) EXCEPT !.w["jump"] = 1, !.we = 1],
                                  \* calls, multis and jumps, calls in the
                                  \* entry block counting twice, come to
                                  \* three
    Profile(0, 0, 0, 0, 0, 0) }   \* every function crashes the compiler

HasAliasArg(f, i) ==
  \E k \in 1..Len(f.dfg[i].args) : IsAlias(f, f.dfg[i].args[k])

InstWeight(o, f, i) ==
  o.w[f.dfg[i].opcode]
    + (IF HasAliasArg(f, i) THEN o.wa ELSE 0)
    + (IF f.dfg[i].opcode = "call" /\ InstPos(f, i) = 1 THEN o.we ELSE 0)

RECURSIVE WeightOf(_, _, _)
WeightOf(o, f, is) ==
  IF is = <<>> THEN 0
  ELSE InstWeight(o, f, Head(is)) + WeightOf(o, f, Tail(is))

RECURSIVE PanicMessage(_, _, _)
PanicMessage(o, f, is) ==
  IF is = <<>> THEN "Box<Any>"
  ELSE IF InstWeight(o, f, Head(is)) > 0 THEN f.dfg[Head(is)].opcode
  ELSE PanicMessage(o, f, Tail(is))

Succeed == [crash |-> FALSE, msg |-> ""]

Crash(m) == [crash |-> TRUE, msg |-> m]

check_for_crash(o, f) ==
  IF WeightOf(o, f, layout_insts(f)) >= o.T
  THEN Crash(PanicMessage(o, f, layout_insts(f)))
  ELSE Succeed

----------------------------------------------------------------------------
(* The mutators.  A mutator is a record [name, ebb, inst, kind, prev_ebb]; *)
(* mutate yields [kind, func, status, mut]: kind "none" for None, "some"   *)
(* for a candidate, "panic" when an unwrap, expect or assert of the call   *)
(* fails, and "merge" when MergeBlocks is about to move instructions.      *)

\* Whether the `basic-blocks` feature is compiled in.
BasicBlocks == FALSE

Mutator(n, e, i) ==
  [name |-> n, ebb |-> e, inst |-> i, kind |-> 0, prev_ebb |-> None]

NoMutator == Mutator("none", None, None)

MutateNone(m, f) == [kind |-> "none", func |-> f, status |-> "Skip", mut |-> m]

MutatePanic(m, f) == [kind |-> "panic", func |-> f, status |-> "Skip", mut |-> m]

MutateSome(m, f, st) == [kind |-> "some", func |-> f, status |-> st, mut |-> m]

\* The position of the cursor returned without advancing the cursor.
next_inst_ret_prev_stay(f, ebb, inst) ==
  [kind |-> IF next_inst(f, inst) # None \/ next_ebb(f, ebb) # None
            THEN "some" ELSE "none",
   prev_ebb |-> ebb, prev_inst |-> inst, ebb |-> ebb, inst |-> inst]

\* Advance the cursor (ebb, inst) and return the position it was at.
next_inst_ret_prev(f, ebb, inst) ==
  IF next_inst(f, inst) # None
  THEN [kind |-> "some", prev_ebb |-> ebb, prev_inst |-> inst,
        ebb |-> ebb, inst |-> next_inst(f, inst)]
  ELSE IF next_ebb(f, ebb) # None
  THEN [kind |-> IF first_inst(f, next_ebb(f, ebb)) = None
                 THEN "panic" ELSE "some",
        prev_ebb |-> ebb, prev_inst |-> inst,
        ebb |-> next_ebb(f, ebb), inst |-> first_inst(f, next_ebb(f, ebb))]
  ELSE [kind |-> "none", prev_ebb |-> ebb, prev_inst |-> inst,
        ebb |-> ebb, inst |-> inst]

\* The constructor shared by the three instruction-cursor mutators.
InstCursorNew(n, f) ==
  IF entry_block(f) = None \/ first_inst(f, entry_block(f)) = None
  THEN [panic |-> TRUE, mut |-> NoMutator]
  ELSE [panic |-> FALSE,
        mut |-> Mutator(n, entry_block(f), first_inst(f, entry_block(f)))]

EbbCursorNew(n, f) ==
  IF entry_block(f) = None
  THEN [panic |-> TRUE, mut |-> NoMutator]
  ELSE [panic |-> FALSE, mut |-> Mutator(n, entry_block(f), None)]

\* RemoveInst::mutate leaving the block it has emptied in the layout.
RemoveInst_mutate_keep_ebb(m, f) ==
  LET At(c) ==
        LET m1 == [m EXCEPT !.ebb = c.ebb, !.inst = c.inst]
            Removed(f1) == MutateSome(m1, f1, "ExpandedOrShrinked")
        IN IF c.kind = "none" THEN MutateNone(m, f)
           ELSE IF c.kind = "panic" THEN MutatePanic(m1, f)
           ELSE Apply(Removed, remove_inst(f, c.prev_inst))
  IN Apply(At, next_inst_ret_prev(f, m.ebb, m.inst))

RemoveInst_mutate(m, f) ==
  LET At(c) ==
        LET m1 == [m EXCEPT !.ebb = c.ebb, !.inst = c.inst]
            Removed(f1) ==
              IF ebb_insts(f1, c.prev_ebb) = <<>>
              THEN MutateSome(m1, remove_ebb(f1, c.prev_ebb), "ExpandedOrShrinked")
              ELSE MutateSome(m1, f1, "ExpandedOrShrinked")
        IN IF c.kind = "none" THEN MutateNone(m, f)
           ELSE IF c.kind = "panic" THEN MutatePanic(m1, f)
           ELSE Apply(Removed, remove_inst(f, c.prev_inst))
  IN Apply(At, next_inst_ret_prev(f, m.ebb, m.inst))

const_for_type(ty) ==
  IF ty = "f32" THEN "f32const"
  ELSE IF ty = "f64" THEN "f64const"
  ELSE "iconst"

\* A constant for the first result only.
InsertConsts_first(f, results, at) ==
  IF results = <<>> THEN f
  ELSE LET Made(f1) == insert_inst(f1, Len(f1.dfg), at)
       IN Apply(Made,
                make_inst(f, const_for_type(value_type(Head(results))),
                          Head(results)))

\* One constant per result, inserted before the instruction being replaced.
RECURSIVE InsertConsts(_, _, _)
InsertConsts(f, results, at) ==
  IF results = <<>> THEN f
  ELSE LET r == Head(results)
           Made(f1) == insert_inst(f1, Len(f1.dfg), at)
           Rest(f2) == InsertConsts(f2, Tail(results), at)
       IN Apply(Rest, Apply(Made, make_inst(f, const_for_type(value_type(r)), r)))

\* ReplaceInstWithConst::mutate inserting the constants of a one-result
\* instruction too, and leaving the instruction in place.
ReplaceInstWithConst_mutate_keep(m, f) ==
  LET At(c) ==
        LET m1 == [m EXCEPT !.ebb = c.ebb, !.inst = c.inst]
            num_results == Len(inst_results(f, c.prev_inst))
            Inserted(f1) == MutateSome(m1, f1, "ExpandedOrShrinked")
        IN IF c.kind = "none" THEN MutateNone(m, f)
           ELSE IF c.kind = "panic" THEN MutatePanic(m1, f)
           ELSE IF num_results = 0 \/ opcode(f, c.prev_inst) \in ConstOpcodes
           THEN MutateSome(m1, f, "Skip")
           ELSE Apply(Inserted,
                      InsertConsts(clear_results(f, c.prev_inst),
                                   inst_results(f, c.prev_inst), c.prev_inst))
  IN Apply(At, next_inst_ret_prev(f, m.ebb, m.inst))

ReplaceInstWithConst_mutate(m, f) ==
  LET At(c) ==
        LET m1 == [m EXCEPT !.ebb = c.ebb, !.inst = c.inst]
            num_results == Len(inst_results(f, c.prev_inst))
            Inserted(f1) ==
              MutateSome(m1, remove_inst(f1, c.prev_inst), "ExpandedOrShrinked")
        IN IF c.kind = "none" THEN MutateNone(m, f)
           ELSE IF c.kind = "panic" THEN MutatePanic(m1, f)
           ELSE IF num_results = 0 \/ opcode(f, c.prev_inst) \in ConstOpcodes
           THEN MutateSome(m1, f, "Skip")
           ELSE IF num_results = 1
           THEN MutateSome(m1,
                  replace(f, c.prev_inst,
                          const_for_type(value_type(inst_results(f, c.prev_inst)[1]))),
                  "Changed")
           ELSE Apply(Inserted,
                      InsertConsts(clear_results(f, c.prev_inst),
                                   inst_results(f, c.prev_inst), c.prev_inst))
  IN Apply(At, next_inst_ret_prev(f, m.ebb, m.inst))

ReplaceInstWithTrap_mutate(m, f) ==
  LET At(c) ==
        LET m1 == [m EXCEPT !.ebb = c.ebb, !.inst = c.inst]
        IN IF c.kind = "none" THEN MutateNone(m, f)
           ELSE IF c.kind = "panic" THEN MutatePanic(m1, f)
           ELSE IF opcode(f, c.prev_inst) = "trap"
           THEN MutateSome(m1, f, "Skip")
           ELSE MutateSome(m1, replace(f, c.prev_inst, "trap"), "Changed")
  IN Apply(At, next_inst_ret_prev(f, m.ebb, m.inst))

\* `while let Some(inst) = func.layout.last_inst(self.ebb)`
RECURSIVE RemoveAllInsts(_, _)
RemoveAllInsts(f, e) ==
  LET Last(inst) ==
        LET Rest(f1) == RemoveAllInsts(f1, e)
        IN IF inst = None THEN f ELSE Apply(Rest, remove_inst(f, inst))
  IN Apply(Last, last_inst(f, e))

\* RemoveEbb::mutate removing the block its cursor is on, the entry block
\* included, before it advances.
RemoveEbb_mutate_current(m, f) ==
  LET Emptied(f1) ==
        MutateSome([m EXCEPT !.ebb = next_ebb(f, m.ebb)],
                   remove_ebb(f1, m.ebb), "ExpandedOrShrinked")
  IN IF m.ebb = None \/ EbbPos(f, m.ebb) = 0 THEN MutateNone(m, f)
     ELSE Apply(Emptied, RemoveAllInsts(f, m.ebb))

RemoveEbb_mutate(m, f) ==
  LET Next_ebb(e) ==
        LET Emptied(f1) ==
              MutateSome([m EXCEPT !.ebb = e], remove_ebb(f1, e),
                         "ExpandedOrShrinked")
        IN IF e = None THEN MutateNone(m, f)
           ELSE Apply(Emptied, RemoveAllInsts(f, e))
  IN Apply(Next_ebb, next_ebb(f, m.ebb))


----------------------------------------------------------------------------
(* RemoveUnusedEntities: a table is rebuilt from the entries that have a   *)
(* user, in their order, and every user is given the new reference.        *)

FuncRefOpcodes == {"call", "func_addr"}

SigRefOpcodes == {"call_indirect"}

StackSlotOpcodes == {"stack_load", "stack_store", "regspill", "regfill"}

GlobalValueOpcodes == {"global_value"}

\* The orders in which iterating a HashMap can yield its keys; which one it
\* is depends on the map's RandomState.
HashOrders == {"ascending", "descending"}

RECURSIVE KeysInOrder(_, _)
KeysInOrder(keys, h) ==
  IF keys = {} THEN <<>>
  ELSE LET k == IF h = "ascending"
                THEN CHOOSE x \in keys : \A y \in keys : x <= y
                ELSE CHOOSE x \in keys : \A y \in keys : x >= y
       IN <<k>> \o KeysInOrder(keys \ {k}, h)

\* A usage map (HashMap::new() and the entries inserted into it): keys are
\* the references that have an entry, iter is the order iteration would
\* yield them in.
HashMap(keys, h) == [keys |-> keys, iter |-> KeysInOrder(keys, h)]

\* The references that instructions of the layout with these opcodes hold.
UsedRefs(f, ops) ==
  {f.dfg[i].ref : i \in {j \in 1..Len(f.dfg) :
                           InstPos(f, j) # 0 /\ f.dfg[j].opcode \in ops}}

\* The table rebuilt by iterating the usage map instead of the old table.
RECURSIVE KeepUsedIterating(_, _, _)
KeepUsedIterating(table, map, k) ==
  IF k > Len(map.iter) THEN <<>>
  ELSE <<table[map.iter[k]]>> \o KeepUsedIterating(table, map, k + 1)

\* The old table is iterated in its order; `usage_map.get(&ref)` tells
\* whether entry k is pushed onto the new table.
RECURSIVE KeepUsed(_, _, _)
KeepUsed(table, map, k) ==
  IF k > Len(table) THEN <<>>
  ELSE (IF k \in map.keys THEN <<table[k]>> ELSE <<>>)
       \o KeepUsed(table, map, k + 1)

\* The users left with the reference they had.
NewRef_old(map, r) == r

\* The reference that push returned for old entry r (r is used).
NewRef(map, r) == Cardinality({u \in map.keys : u <= r})

RECURSIVE RewriteInsts(_, _, _, _)
RewriteInsts(f, ops, map, k) ==
  IF k > Len(f.dfg) THEN <<>>
  ELSE <<(IF InstPos(f, k) # 0 /\ f.dfg[k].opcode \in ops
          THEN [f.dfg[k] EXCEPT !.ref = NewRef(map, @)]
          ELSE f.dfg[k])>> \o RewriteInsts(f, ops, map, k + 1)

RECURSIVE RewriteSignatures(_, _, _)
RewriteSignatures(table, map, k) ==
  IF k > Len(table) THEN <<>>
  ELSE <<[table[k] EXCEPT !.signature = NewRef(map, @)]>>
       \o RewriteSignatures(table, map, k + 1)

RemoveUnusedExtFuncs(f, h) ==
  LET Rebuilt(map) ==
        [f EXCEPT !.dfg = RewriteInsts(f, FuncRefOpcodes, map, 1),
                  !.ext_funcs = KeepUsed(@, map, 1)]
  IN Apply(Rebuilt, HashMap(UsedRefs(f, FuncRefOpcodes), h))

RemoveUnusedSignatures(f, h) ==
  LET Rebuilt(map) ==
        [f EXCEPT !.dfg = RewriteInsts(f, SigRefOpcodes, map, 1),
                  !.ext_funcs = RewriteSignatures(@, map, 1),
                  !.signatures = KeepUsed(@, map, 1)]
  IN Apply(Rebuilt,
           HashMap(UsedRefs(f, SigRefOpcodes)
                     \cup {f.ext_funcs[k].signature : k \in 1..Len(f.ext_funcs)},
                   h))

RemoveUnusedStackSlots(f, h) ==
  LET Rebuilt(map) ==
        [f EXCEPT !.dfg = RewriteInsts(f, StackSlotOpcodes, map, 1),
                  !.stack_slots = KeepUsed(@, map, 1)]
  IN Apply(Rebuilt, HashMap(UsedRefs(f, StackSlotOpcodes), h))

\* Load and IAddImm global values can refer to each other.
HasCyclicGlobalValue(f) ==
  \E k \in 1..Len(f.global_values) : f.global_values[k] \in {"load", "iadd_imm"}

RemoveUnusedGlobalValues(f, h) ==
  LET Rebuilt(map) ==
        [f EXCEPT !.dfg = RewriteInsts(f, GlobalValueOpcodes, map, 1),
                  !.global_values = KeepUsed(@, map, 1)]
  IN Apply(Rebuilt, HashMap(UsedRefs(f, GlobalValueOpcodes), h))

\* RemoveUnusedEntities::mutate with the stack slots before the signatures.
RemoveUnusedEntities_mutate_swapped(m, f, h) ==
  LET m1 == [m EXCEPT !.kind = @ + 1]
  IN IF m.kind = 0
     THEN MutateSome(m1, RemoveUnusedExtFuncs(f, h), "Changed")
     ELSE IF m.kind = 1
     THEN MutateSome(m1, RemoveUnusedStackSlots(f, h), "Changed")
     ELSE IF m.kind = 2
     THEN MutateSome(m1, RemoveUnusedSignatures(f, h), "Changed")
     ELSE IF m.kind = 3
     THEN (IF HasCyclicGlobalValue(f) THEN MutateNone(m, f)
           ELSE MutateSome(m1, RemoveUnusedGlobalValues(f, h), "Changed"))
     ELSE MutateNone(m, f)

RemoveUnusedEntities_mutate(m, f, h) ==
  LET m1 == [m EXCEPT !.kind = @ + 1]
  IN IF m.kind = 0
     THEN MutateSome(m1, RemoveUnusedExtFuncs(f, h), "Changed")
     ELSE IF m.kind = 1
     THEN MutateSome(m1, RemoveUnusedSignatures(f, h), "Changed")
     ELSE IF m.kind = 2
     THEN MutateSome(m1, RemoveUnusedStackSlots(f, h), "Changed")
     ELSE IF m.kind = 3
     THEN (IF HasCyclicGlobalValue(f) THEN MutateNone(m, f)
           ELSE MutateSome(m1, RemoveUnusedGlobalValues(f, h), "Changed"))
     ELSE MutateNone(m, f)

----------------------------------------------------------------------------
(* MergeBlocks.  MergeBlocks_begin is mutate up to the removal of the      *)
(* predecessor's branch; the loop that moves the instructions and the end  *)
(* of mutate are the steps MergeRemove, MergeAppend and MergeFinish.       *)

\* Make the parameters of the block aliases of the branch's arguments.
RECURSIVE AliasParams(_, _, _)
AliasParams(f, ps, as) ==
  IF ps = <<>> \/ as = <<>> THEN f
  ELSE LET Rest(f1) == AliasParams(f1, Tail(ps), Tail(as))
       IN Apply(Rest, IF Head(ps) # Head(as)
                      THEN change_to_alias(f, Head(ps), Head(as)) ELSE f)

MergeBlocks_begin(m, f) ==
  LET Next_ebb(ebb) ==
        LET m1 == [m EXCEPT !.ebb = ebb]
            Merge(preds) ==
              LET pred == CHOOSE p \in preds : TRUE
                  skip == BasicBlocks /\ prev_inst(f, pred[2]) # None
                                      /\ is_branch(f, prev_inst(f, pred[2]))
                  Aliased(f1) ==
                    [kind   |-> "merge",
                     func   |-> remove_inst(f1, pred[2]),
                     status |-> "ExpandedOrShrinked",
                     mut    |-> [m1 EXCEPT !.prev_ebb = pred[1]]]
              IN IF Cardinality(preds) # 1 THEN MutateSome(m1, f, "Skip")
                 ELSE IF skip THEN MutateSome(m1, f, "Skip")
                 ELSE IF Len(f.params[ebb]) # Len(f.dfg[pred[2]].args)
                 THEN MutatePanic(m1, f)
                 ELSE Apply(Aliased,
                            AliasParams(detach_ebb_params(f, ebb),
                                        f.params[ebb], f.dfg[pred[2]].args))
        IN IF ebb = None THEN MutateNone(m, f) ELSE Apply(Merge, Preds(f, ebb))
  IN Apply(Next_ebb, next_ebb(f, m.ebb))

MergeBlocks_did_crash(m) == [m EXCEPT !.ebb = m.prev_ebb]

\* Every mutator with the trait's default did_crash.
did_crash_default(m) == m

\* did_crash does nothing by default.
did_crash(m) == IF m.name = "merge blocks" THEN MergeBlocks_did_crash(m) ELSE m

\* The match of reduce with the arms of RemoveEbb and MergeBlocks exchanged.
new_mutator_merge_first(ph, f) ==
  IF ph = 0 THEN InstCursorNew("remove inst", f)
  ELSE IF ph = 1 THEN InstCursorNew("replace inst with const", f)
  ELSE IF ph = 2 THEN InstCursorNew("replace inst with trap", f)
  ELSE IF ph = 3 THEN EbbCursorNew("merge blocks", f)
  ELSE IF ph = 4 THEN [panic |-> FALSE,
                       mut |-> Mutator("remove unused entities", None, None)]
  ELSE EbbCursorNew("remove ebb", f)

\* `match phase { 0 => ..., 5 => ..., _ => break }`
new_mutator(ph, f) ==
  IF ph = 0 THEN InstCursorNew("remove inst", f)
  ELSE IF ph = 1 THEN InstCursorNew("replace inst with const", f)
  ELSE IF ph = 2 THEN InstCursorNew("replace inst with trap", f)
  ELSE IF ph = 3 THEN EbbCursorNew("remove ebb", f)
  ELSE IF ph = 4 THEN [panic |-> FALSE,
                       mut |-> Mutator("remove unused entities", None, None)]
  ELSE EbbCursorNew("merge blocks", f)

\* Every mutator counting the instructions.
mutation_count_insts(m, f) == inst_count(f)

\* mutator.mutation_count(func), a usize; ebb_count - 1 is computed only
\* after MergeBlocks::new has found an entry block.
mutation_count(m, f) ==
  IF m.name \in {"remove inst", "replace inst with const",
                 "replace inst with trap"}
  THEN inst_count(f)
  ELSE IF m.name = "remove ebb" THEN ebb_count(f)
  ELSE IF m.name = "remove unused entities" THEN 4
  ELSE ebb_count(f) - 1

\* mutator.mutate(func); h is the order of the hash maps the call creates.
mutate(m, f, h) ==
  IF m.name = "remove inst" THEN RemoveInst_mutate(m, f)
  ELSE IF m.name = "replace inst with const"
  THEN ReplaceInstWithConst_mutate(m, f)
  ELSE IF m.name = "replace inst with trap"
  THEN ReplaceInstWithTrap_mutate(m, f)
  ELSE IF m.name = "remove ebb" THEN RemoveEbb_mutate(m, f)
  ELSE IF m.name = "remove unused entities"
  THEN RemoveUnusedEntities_mutate(m, f, h)
  ELSE MergeBlocks_begin(m, f)

----------------------------------------------------------------------------
(* The pass driver `reduce`, and the test that reduces twice.              *)
(*                                                                         *)
(* pc is the position in reduce: "start" before the initial check,         *)
(* "resolve" before resolve_aliases, "pass" at the head of the pass loop,  *)
(* "phase" at the head of the phase loop, "loop" at the head of the        *)
(* candidate loop, "merge" inside MergeBlocks::mutate, "mutated" after     *)
(* mutate returned a candidate, "accepted" after the candidate became F,  *)
(* "final" before the final check, and "ok", "err", "panic" when reduce    *)
(* has returned Ok, returned Err or panicked.                              *)

VARIABLES
  input,                 \* the function reduce was called with
  oracle,                \* the profile of the verifier and backend
  func,                  \* the accepted function F
  pc,
  pass_idx,
  phase,
  step,                  \* turns of the candidate loop taken in this phase
  should_keep_reducing,
  mutator,
  cand,                  \* the candidate mutate returned (or is building)
  status,                \* its ProgressStatus
  merging,               \* the block MergeBlocks::mutate is emptying
  moving,                \* the instruction it has removed and not yet appended
  result,                \* what reduce returned: [func, msg]
  run,                   \* 1 in the first call of reduce, 2 in the second
  first,                 \* what the first call did: [pc, result, log]
  ncalls,                \* history: calls of check_for_crash in this run
  log,                   \* history: the functions given to the oracle and
                         \* the candidates skipped in this run, in order
  ndid,                  \* history: calls of did_crash in this run
  env,                   \* what the verifier and the backend do in the call
                         \* of check_for_crash that is looked into
  cpc,                   \* the position in that call
  panic_hook,            \* the process-wide panic hook
  old_panic_hook,        \* the local of that name in check_for_crash
  cres,                  \* the CheckResult the call returns
  ran,                   \* history: what the call has run
  hook_before,           \* history: the panic hook when the call was made
  progress_len,          \* the length the progress bar was given
  shrunk                 \* history: an ExpandedOrShrinked candidate was
                         \* accepted in this pass

vars == <<input, oracle, func, pc, pass_idx, phase, step, should_keep_reducing,
          mutator, cand, status, merging, moving, result, run, first, ncalls,
          log, ndid, shrunk, env, cpc, panic_hook, old_panic_hook, cres, ran,
          hook_before, progress_len>>

check_vars == <<env, cpc, panic_hook, old_panic_hook, cres, ran, hook_before>>

NoResult == [func |-> NoFunction, msg |-> ""]

NoFirst == [pc |-> "start", result |-> NoResult, log |-> <<>>]

\* The log with one more entry: function f, submitted or skipped as `what`.
Logged(l, f, what) == Append(l, [func |-> f, what |-> what])

Inputs ==
  UNION {{InputFunction(kinds, cuts, gv) :
            kinds \in [1..n -> InputKinds],
            cuts \in SUBSET (1..(n - 1)),
            gv \in GlobalValueTables} : n \in 1..MaxInsts}

\* reduce is entered with function f.
Enter(f) ==
  /\ input = f
  /\ func = f
  /\ pc = "start"
  /\ pass_idx = 0
  /\ phase = 0
  /\ step = 0
  /\ should_keep_reducing = FALSE
  /\ mutator = NoMutator
  /\ cand = NoFunction
  /\ status = "Skip"
  /\ merging = None
  /\ moving = None
  /\ result = NoResult
  /\ ncalls = 0
  /\ log = <<>>
  /\ ndid = 0
  /\ shrunk = FALSE
  /\ progress_len = 0

\* What a panic carries: a &'static str, a String, or a value of another
\* type; text is what it says.
Payload(type, text) == [type |-> type, text |-> text]

PayloadTypes == {"str", "String", "other"}

\* What the verifier and the backend do with the function: the verifier
\* returns Ok ("ok"), returns errors ("error") or panics ("panic");
\* compile_and_emit returns Ok ("ok"), returns Err ("error") or panics with
\* a payload; test tells whether the build is a test build.
Env(verifier, backend, payload, test) ==
  [verifier |-> verifier, backend |-> backend, payload |-> payload,
   test |-> test]

NoEnv == Env("ok", "ok", Payload("str", ""), FALSE)

\* The hooks the program around reduce can have installed, and the hook
\* check_for_crash installs, `Box::new(|_| {})`.
Hooks == {"default", "custom"}

SilentHook == "silent"

\* No call of check_for_crash is looked into.
CheckIdle ==
  /\ env = NoEnv
  /\ cpc = "idle"
  /\ panic_hook = "default"
  /\ old_panic_hook = "default"
  /\ cres = Succeed
  /\ ran = {}
  /\ hook_before = panic_hook

Init ==
  /\ oracle \in CrashProfiles
  /\ run = 1
  /\ first = NoFirst
  /\ \E f \in Inputs : Enter(f)
  /\ CheckIdle

\* Where reduce goes after the initial check: on, or `return Err(...)`.
after_initial_check(r) == IF r.crash THEN "resolve" ELSE "err"

\* `match context.check_for_crash(&func)` at the head of reduce.
CheckInitial ==
  /\ pc = "start"
  /\ pc' = after_initial_check(check_for_crash(oracle, func))
  /\ ncalls' = ncalls + 1
  /\ log' = Logged(log, func, "initial")
  /\ UNCHANGED <<input, oracle, func, pass_idx, phase, step,
                 should_keep_reducing, mutator, cand, status, merging, moving,
                 result, run, first, shrunk, ndid, check_vars, progress_len>>

ResolveAliases ==
  /\ pc = "resolve"
  /\ func' = resolve_aliases(func)
  /\ pc' = "pass"
  /\ UNCHANGED <<input, oracle, pass_idx, phase, step, should_keep_reducing,
                 mutator, cand, status, merging, moving, result, run, first,
                 ncalls, log, shrunk, ndid, check_vars, progress_len>>

\* The head of `for pass_idx in 0..100`.
BeginPass ==
  /\ pc = "pass"
  /\ should_keep_reducing' = FALSE
  /\ phase' = 0
  /\ shrunk' = FALSE
  /\ pc' = "phase"
  /\ UNCHANGED <<input, oracle, func, pass_idx, step, mutator, cand, status,
                 merging, moving, result, run, first, ncalls, log, ndid,
                 check_vars, progress_len>>

\* `let mut mutator = match phase { ... }`
BeginPhase ==
  /\ pc = "phase"
  /\ phase < NumPhases
  /\ \E n \in {new_mutator(phase, func)} :
       /\ mutator' = n.mut
       /\ progress_len' = IF n.panic THEN progress_len
                          ELSE mutation_count(n.mut, func)
       /\ pc' = IF n.panic THEN "panic" ELSE "loop"
  /\ step' = 0
  /\ UNCHANGED <<input, oracle, func, pass_idx, phase, should_keep_reducing,
                 cand, status, merging, moving, result, run, first, ncalls,
                 log, shrunk, ndid, check_vars>>

\* The candidate loop ends: mutate returned None, or 10000 turns were taken.
EndPhase ==
  /\ pc = "loop"
  /\ \/ step = MaxSteps
     \/ \E h \in HashOrders : mutate(mutator, func, h).kind = "none"
  /\ phase' = phase + 1
  /\ pc' = "phase"
  /\ UNCHANGED <<input, oracle, func, pass_idx, step, should_keep_reducing,
                 mutator, cand, status, merging, moving, result, run, first,
                 ncalls, log, shrunk, ndid, check_vars, progress_len>>

\* `mutator.mutate(func.clone())` returns a candidate (or panics).
Mutate ==
  /\ pc = "loop"
  /\ step < MaxSteps
  /\ \E r \in {mutate(mutator, func, h) : h \in HashOrders} :
       /\ r.kind \in {"some", "panic"}
       /\ mutator' = r.mut
       /\ cand' = r.func
       /\ status' = r.status
       /\ pc' = IF r.kind = "panic" THEN "panic" ELSE "mutated"
  /\ step' = step + 1
  /\ UNCHANGED <<input, oracle, func, pass_idx, phase, should_keep_reducing,
                 merging, moving, result, run, first, ncalls, log, shrunk,
                 ndid, check_vars, progress_len>>

\* MergeBlocks::mutate found the block's only predecessor and removed its
\* branch.
MergeBegin ==
  /\ pc = "loop"
  /\ step < MaxSteps
  /\ \E r \in {mutate(mutator, func, h) : h \in HashOrders} :
       /\ r.kind = "merge"
       /\ mutator' = r.mut
       /\ cand' = r.func
       /\ status' = r.status
       /\ merging' = r.mut.ebb
  /\ step' = step + 1
  /\ pc' = "merge"
  /\ UNCHANGED <<input, oracle, func, pass_idx, phase, should_keep_reducing,
                 moving, result, run, first, ncalls, log, shrunk, ndid,
                 check_vars, progress_len>>

\* `while let Some(inst) = func.layout.first_inst(ebb)` and the first
\* statement of its body, `func.layout.remove_inst(inst)`.
MergeRemove ==
  /\ pc = "merge"
  /\ moving = None
  /\ first_inst(cand, merging) # None
  /\ moving' = first_inst(cand, merging)
  /\ cand' = remove_inst(cand, first_inst(cand, merging))
  /\ UNCHANGED <<input, oracle, func, pc, pass_idx, phase, step,
                 should_keep_reducing, mutator, status, merging, result, run,
                 first, ncalls, log, shrunk, ndid, check_vars, progress_len>>

\* `func.layout.append_inst(inst, pred.ebb)`, and back to the loop's head.
MergeAppend ==
  /\ pc = "merge"
  /\ moving # None
  /\ cand' = append_inst(cand, moving, mutator.prev_ebb)
  /\ moving' = None
  /\ UNCHANGED <<input, oracle, func, pc, pass_idx, phase, step,
                 should_keep_reducing, mutator, status, merging, result, run,
                 first, ncalls, log, shrunk, ndid, check_vars, progress_len>>

\* The loop has emptied the block: it is removed, and mutate returns.
MergeFinish ==
  /\ pc = "merge"
  /\ moving = None
  /\ first_inst(cand, merging) = None
  /\ cand' = remove_ebb(cand, merging)
  /\ merging' = None
  /\ pc' = "mutated"
  /\ UNCHANGED <<input, oracle, func, pass_idx, phase, step,
                 should_keep_reducing, mutator, status, moving, result, run,
                 first, ncalls, log, shrunk, ndid, check_vars, progress_len>>

\* The driver without the Skip test.
is_skip_never(st) == FALSE

\* `if let ProgressStatus::Skip = mutation_kind`
is_skip(st) == st = "Skip"

\* `if let ProgressStatus::Skip = mutation_kind { continue; }`
SkipCandidate ==
  /\ pc = "mutated"
  /\ is_skip(status)
  /\ log' = Logged(log, cand, status)
  /\ cand' = NoFunction
  /\ pc' = "loop"
  /\ UNCHANGED <<input, oracle, func, pass_idx, phase, step,
                 should_keep_reducing, mutator, status, merging, moving,
                 result, run, first, ncalls, shrunk, ndid, check_vars, progress_len>>

\* The driver taking over a candidate the oracle did not crash on.
discard_keeps_candidate(f, c) == c

\* `CheckResult::Succeed => continue`: F, of which the candidate was a
\* mutated clone, stays as it is.
discard(f, c) == f

\* CheckResult::Succeed: the candidate is dropped.
RejectCandidate ==
  /\ pc = "mutated"
  /\ ~is_skip(status)
  /\ ~check_for_crash(oracle, cand).crash
  /\ ncalls' = ncalls + 1
  /\ log' = Logged(log, cand, status)
  /\ func' = discard(func, cand)
  /\ cand' = NoFunction
  /\ pc' = "loop"
  /\ UNCHANGED <<input, oracle, pass_idx, phase, step, should_keep_reducing,
                 mutator, status, merging, moving, result, run, first, shrunk,
                 ndid, check_vars, progress_len>>

\* The progress flag set by every accepted candidate.
keep_reducing_any(keep, st) == keep \/ st \in {"ExpandedOrShrinked", "Changed"}

\* `let verb = match mutation_kind { ... }`
keep_reducing(keep, st) == keep \/ st = "ExpandedOrShrinked"

\* CheckResult::Crash: `func = mutated_func`, the candidate becomes F.
AcceptCandidate ==
  /\ pc = "mutated"
  /\ ~is_skip(status)
  /\ check_for_crash(oracle, cand).crash
  /\ ncalls' = ncalls + 1
  /\ log' = Logged(log, cand, status)
  /\ func' = cand
  /\ cand' = NoFunction
  /\ pc' = "accepted"
  /\ UNCHANGED <<input, oracle, pass_idx, phase, step, should_keep_reducing,
                 mutator, status, merging, moving, result, run, first, ndid,
                 shrunk, check_vars, progress_len>>

\* `mutator.did_crash()` and `let verb = match mutation_kind { ... }`, the
\* rest of the Crash arm.
NotifyMutator ==
  /\ pc = "accepted"
  /\ mutator' = did_crash(mutator)
  /\ ndid' = ndid + 1
  /\ should_keep_reducing' = keep_reducing(should_keep_reducing, status)
  /\ shrunk' = (shrunk \/ status = "ExpandedOrShrinked")
  /\ pc' = "loop"
  /\ UNCHANGED <<input, oracle, func, pass_idx, phase, step, cand, status,
                 merging, moving, result, run, first, ncalls, log, check_vars, progress_len>>

\* Whether the pass loop goes on after a pass.
another_pass(keep, idx) == keep /\ idx + 1 < MaxPasses

\* The phase loop breaks; `if !should_keep_reducing { break; }`
EndPass ==
  /\ pc = "phase"
  /\ phase >= NumPhases
  /\ pass_idx' = IF should_keep_reducing THEN pass_idx + 1 ELSE pass_idx
  /\ pc' = IF another_pass(should_keep_reducing, pass_idx) THEN "pass" ELSE "final"
  /\ UNCHANGED <<input, oracle, func, phase, step, should_keep_reducing,
                 mutator, cand, status, merging, moving, result, run, first,
                 ncalls, log, shrunk, ndid, check_vars, progress_len>>

\* reduce returning the message of the initial check.
reduce_return_initial(o, f, orig) ==
  [func |-> f, msg |-> check_for_crash(o, orig).msg]

\* `Ok((func, crash_msg))`: f is the accepted function; orig, the function
\* reduce was called with, is not consulted.
reduce_return(o, f, orig) == [func |-> f, msg |-> check_for_crash(o, f).msg]

\* The final check_for_crash, and the return or the unreachable!().
FinalCheck ==
  /\ pc = "final"
  /\ ncalls' = ncalls + 1
  /\ log' = Logged(log, func, "final")
  /\ IF check_for_crash(oracle, func).crash
     THEN result' = reduce_return(oracle, func, input) /\ pc' = "ok"
     ELSE result' = result /\ pc' = "panic"
  /\ UNCHANGED <<input, oracle, func, pass_idx, phase, step,
                 should_keep_reducing, mutator, cand, status, merging, moving,
                 run, first, shrunk, ndid, check_vars, progress_len>>

\* reduce is called once more, with function f.
Reenter(f) ==
  /\ run = 1
  /\ run' = 2
  /\ first' = [pc |-> pc, result |-> result, log |-> log]
  /\ input' = f
  /\ func' = f
  /\ pc' = "start"
  /\ pass_idx' = 0
  /\ phase' = 0
  /\ step' = 0
  /\ should_keep_reducing' = FALSE
  /\ mutator' = NoMutator
  /\ cand' = NoFunction
  /\ status' = "Skip"
  /\ merging' = None
  /\ moving' = None
  /\ result' = NoResult
  /\ ncalls' = 0
  /\ log' = <<>>
  /\ ndid' = 0
  /\ shrunk' = FALSE
  /\ progress_len' = 0
  /\ UNCHANGED <<oracle, check_vars>>

\* test_reduce: the reduced function is reduced again.
ReduceAgain ==
  /\ pc = "ok"
  /\ Reenter(result.func)

\* A second run of reduce on the input of the first.
ReduceSame ==
  /\ pc \in {"ok", "err", "panic"}
  /\ Reenter(input)

Next ==
  \/ CheckInitial
  \/ ResolveAliases
  \/ BeginPass
  \/ BeginPhase
  \/ EndPhase
  \/ Mutate
  \/ MergeBegin
  \/ MergeRemove
  \/ MergeAppend
  \/ MergeFinish
  \/ SkipCandidate
  \/ RejectCandidate
  \/ AcceptCandidate
  \/ NotifyMutator
  \/ EndPass
  \/ FinalCheck

\* One call of reduce.
Spec == Init /\ [][Next]_vars

\* One call of reduce that is not suspended: reduce is synchronous, it takes
\* its next step whenever it has one.
LiveSpec == Init /\ [][Next]_vars /\ WF_vars(Next)

\* test_reduce: reduce, then reduce of what it returned.
TwiceSpec == Init /\ [][Next \/ ReduceAgain]_vars

\* Two runs of reduce on the same input with the same oracle.
SameSpec == Init /\ [][Next \/ ReduceSame]_vars

----------------------------------------------------------------------------
(* One call of check_for_crash, step by step.  cpc is the position in the  *)
(* call: "verify" before the verifier runs, "test" before the test build's *)
(* emulated panic, "take" before take_hook, "silence" before set_hook of   *)
(* the silent hook, "compile" before compile_and_emit, "restore" before    *)
(* set_hook(old_panic_hook), "done" when the call has returned.  The call  *)
(* is made on func.                                                        *)

\* Every payload reported with the sentinel.
get_panic_string_sentinel(panic) == "Box<Any>"

\* The string a caught panic is reported with.
get_panic_string(panic) ==
  IF panic.type = "str" THEN panic.text
  ELSE IF panic.type = "String" THEN panic.text
  ELSE "Box<Any>"

\* The test build's stand-in for a backend panic.
contains_call(f) ==
  \E k \in 1..Len(layout_insts(f)) : f.dfg[layout_insts(f)[k]].opcode = "call"

\* What the backend does under the oracle's profile: it panics with a &str
\* when the weights reach the threshold, and returns Ok otherwise; the
\* verifier accepts the function.
ProfileEnv(o, f) ==
  Env("ok",
      IF WeightOf(o, f, layout_insts(f)) >= o.T THEN "panic" ELSE "ok",
      Payload("str", PanicMessage(o, f, layout_insts(f))),
      FALSE)

\* The functions check_for_crash is looked into on: those of one block.
CheckedFunctions ==
  {InputFunction(kinds, {}, <<"vmctx", "symbol">>) :
     kinds \in UNION {[1..n -> InputKinds] : n \in 1..MaxInsts}}

CheckInit ==
  /\ oracle \in CrashProfiles
  /\ run = 1
  /\ first = NoFirst
  /\ \E f \in CheckedFunctions :
       /\ Enter(f)
       /\ \E v \in {"ok", "error", "panic"}, b \in {"ok", "error", "panic"},
             t \in PayloadTypes, test \in BOOLEAN :
            env = Env(v, b,
                      Payload(t, PanicMessage(oracle, f, layout_insts(f))),
                      test)
  /\ cpc = "verify"
  /\ panic_hook \in Hooks
  /\ old_panic_hook = "default"
  /\ cres = Succeed
  /\ ran = {}
  /\ hook_before = panic_hook

\* The `#[cfg(test)]` block left out of a test build.
after_verifier_no_test(test) == "take"

\* Where the call goes when the verifier has returned no error.
after_verifier(test) == IF test THEN "test" ELSE "take"

\* `catch_unwind(|| verify_function(&func, self.isa).err())` and its match.
Verify ==
  /\ cpc = "verify"
  /\ ran' = ran \cup {"verifier"}
  /\ cpc' = IF env.verifier = "ok" THEN after_verifier(env.test) ELSE "done"
  /\ cres' = Succeed
  /\ UNCHANGED <<env, panic_hook, old_panic_hook, hook_before>>
  /\ UNCHANGED <<input, oracle, func, pc, pass_idx, phase, step,
                 should_keep_reducing, mutator, cand, status, merging, moving,
                 result, run, first, ncalls, log, ndid, shrunk,
                 progress_len>>

\* The `#[cfg(test)]` block.
TestCrash ==
  /\ cpc = "test"
  /\ cres' = IF contains_call(func) THEN Crash("test crash") ELSE Succeed
  /\ cpc' = "done"
  /\ UNCHANGED <<env, panic_hook, old_panic_hook, ran, hook_before>>
  /\ UNCHANGED <<input, oracle, func, pc, pass_idx, phase, step,
                 should_keep_reducing, mutator, cand, status, merging, moving,
                 result, run, first, ncalls, log, ndid, shrunk,
                 progress_len>>

\* `let old_panic_hook = std::panic::take_hook()`: the default hook is
\* registered in place of the hook taken.
TakeHook ==
  /\ cpc = "take"
  /\ old_panic_hook' = panic_hook
  /\ panic_hook' = "default"
  /\ cpc' = "silence"
  /\ UNCHANGED <<env, cres, ran, hook_before>>
  /\ UNCHANGED <<input, oracle, func, pc, pass_idx, phase, step,
                 should_keep_reducing, mutator, cand, status, merging, moving,
                 result, run, first, ncalls, log, ndid, shrunk,
                 progress_len>>

\* `std::panic::set_hook(Box::new(|_| {}))`
SilenceHook ==
  /\ cpc = "silence"
  /\ panic_hook' = SilentHook
  /\ cpc' = "compile"
  /\ UNCHANGED <<env, old_panic_hook, cres, ran, hook_before>>
  /\ UNCHANGED <<input, oracle, func, pc, pass_idx, phase, step,
                 should_keep_reducing, mutator, cand, status, merging, moving,
                 result, run, first, ncalls, log, ndid, shrunk,
                 progress_len>>

\* `let res = match catch_unwind(|| { ... compile_and_emit(...) })`
Compile ==
  /\ cpc = "compile"
  /\ ran' = ran \cup {"backend"}
  /\ cres' = IF env.backend = "panic"
             THEN Crash(get_panic_string(env.payload))
             ELSE Succeed
  /\ cpc' = "restore"
  /\ UNCHANGED <<env, panic_hook, old_panic_hook, hook_before>>
  /\ UNCHANGED <<input, oracle, func, pc, pass_idx, phase, step,
                 should_keep_reducing, mutator, cand, status, merging, moving,
                 result, run, first, ncalls, log, ndid, shrunk,
                 progress_len>>

\* The hook restored without the hook that was taken.
restored_hook_silent(old, cur) == cur

\* The hook that `std::panic::set_hook(old_panic_hook)` installs.
restored_hook(old, cur) == old

\* `std::panic::set_hook(old_panic_hook); res`
RestoreHook ==
  /\ cpc = "restore"
  /\ panic_hook' = restored_hook(old_panic_hook, panic_hook)
  /\ cpc' = "done"
  /\ UNCHANGED <<env, old_panic_hook, cres, ran, hook_before>>
  /\ UNCHANGED <<input, oracle, func, pc, pass_idx, phase, step,
                 should_keep_reducing, mutator, cand, status, merging, moving,
                 result, run, first, ncalls, log, ndid, shrunk,
                 progress_len>>

CheckNext ==
  \/ Verify
  \/ TestCrash
  \/ TakeHook
  \/ SilenceHook
  \/ Compile
  \/ RestoreHook

\* One call of check_for_crash.
CheckSpec == CheckInit /\ [][CheckNext]_vars

----------------------------------------------------------------------------
(* The RemoveUnusedEntities phase on functions whose instructions refer to *)
(* entities of all four tables.                                            *)

\* The instructions of these functions: an opcode and the entity referred to.
EntityUses ==
  {<<"call", 1>>, <<"call", 2>>, <<"func_addr", 2>>,
   <<"call_indirect", 2>>, <<"call_indirect", 3>>,
   <<"stack_load", 2>>, <<"regspill", 1>>,
   <<"global_value", 1>>, <<"global_value", 2>>}

RECURSIVE EntityDfg(_, _)
EntityDfg(uses, i) ==
  IF i > Len(uses) THEN <<>>
  ELSE <<[opcode  |-> uses[i][1],
          results |-> IF uses[i][1] \in {"regspill", "stack_store"}
                      THEN <<>> ELSE << <<i, 0>> >>,
          args    |-> <<>>,
          dest    |-> None,
          ref     |-> uses[i][2]]>> \o EntityDfg(uses, i + 1)

\* A function of one block holding the first n of the instructions; the
\* others are in the dfg and not in the layout, as instructions are that a
\* mutator removed.
EntityFunction(uses, n, gv) ==
  [layout        |-> <<[ebb |-> 1, insts |-> [i \in 1..n |-> i]]>>,
   dfg           |-> EntityDfg(uses, 1),
   params        |-> << <<>> >>,
   aliases       |-> {},
   ext_funcs     |-> <<[name |-> "f0", signature |-> 1],
                       [name |-> "f1", signature |-> 3]>>,
   signatures    |-> <<"sig0", "sig1", "sig2">>,
   stack_slots   |-> <<"ss0", "ss1">>,
   global_values |-> gv]

EntityFunctions ==
  UNION {{EntityFunction(uses, n, gv) :
            uses \in [1..m -> EntityUses],
            n \in {k \in {m - 1, m} : k >= 1},
            gv \in GlobalValueTables} : m \in 1..MaxInsts}

\* reduce at the head of the candidate loop of the RemoveUnusedEntities
\* phase of its first pass, no candidate having been accepted before; the
\* history variables count from here.
EntityInit ==
  /\ oracle \in CrashProfiles
  /\ run = 1
  /\ first = NoFirst
  /\ CheckIdle
  /\ \E f \in EntityFunctions :
       /\ input = f
       /\ func = f
       /\ mutator = new_mutator(4, f).mut
  /\ pc = "loop"
  /\ pass_idx = 0
  /\ phase = 4
  /\ step = 0
  /\ should_keep_reducing = FALSE
  /\ cand = NoFunction
  /\ status = "Skip"
  /\ merging = None
  /\ moving = None
  /\ result = NoResult
  /\ ncalls = 0
  /\ log = <<>>
  /\ ndid = 0
  /\ shrunk = FALSE
  /\ progress_len = 4

\* The candidate loop of the phase.
EntityNext ==
  \/ Mutate
  \/ RejectCandidate
  \/ AcceptCandidate
  \/ NotifyMutator
  \/ EndPhase

EntitySpec == EntityInit /\ [][EntityNext]_vars

----------------------------------------------------------------------------
(* The claims. *)

Returned == {"ok", "err"}

HasMultiResult(f) == \E i \in 1..Len(f.dfg) : Len(f.dfg[i].results) >= 2

\* C1: once the initial check has returned Crash, the accepted function F is
\* at every point of reduce one on which the oracle returns Crash, so that
\* the final check returns Crash and the unreachable!() is not reached.
C1_AcceptedStillCrashes ==
  pc \notin {"start", "err"} => check_for_crash(oracle, func).crash

\* C2: reduce returns Err exactly when the initial check of the input
\* returns Succeed; then no mutator was constructed, mutate was not called,
\* the oracle was called once and the function is as it was given.  In
\* every other case reduce returns Ok: it does not end in a panic.
C2_ErrIffSucceedElseOk ==
  /\ pc = "err" => /\ ~check_for_crash(oracle, input).crash
                   /\ func = input
                   /\ mutator = NoMutator
                   /\ pass_idx = 0 /\ phase = 0 /\ step = 0
                   /\ ncalls = 1
                   /\ result = NoResult
  /\ (pc # "start" /\ ~check_for_crash(oracle, input).crash) => pc = "err"
  /\ pc = "ok" => check_for_crash(oracle, input).crash
  /\ pc # "panic"

\* C3 as claimed: the function reduce returns has no more blocks and no more
\* instructions than the input.
C3_MonotoneSize ==
  pc = "ok" => /\ ebb_count(result.func) <= ebb_count(input)
               /\ inst_count(result.func) <= inst_count(input)

\* C3 as amended: the accepted function, and so the function reduce returns,
\* never has more blocks than the input; it never has more instructions
\* than the input when no instruction of the input has two or more results.
C3_MonotoneWithoutMultiResult ==
  /\ ebb_count(func) <= ebb_count(input)
  /\ ~HasMultiResult(input) => inst_count(func) <= inst_count(input)
  /\ pc = "ok" => result.func = func

C3_Witness ==
  /\ pc = "ok"
  /\ ~HasMultiResult(input)
  /\ inst_count(result.func) < inst_count(input)
  /\ ebb_count(result.func) < ebb_count(input)

\* C4: reducing the function reduce returned once more gives a function with
\* the same number of blocks and of instructions.
C4_SecondReduceSameSize ==
  (run = 2 /\ pc = "ok")
    => /\ ebb_count(result.func) = ebb_count(first.result.func)
       /\ inst_count(result.func) = inst_count(first.result.func)

\* C5: the entry block of the input is in the layout of every accepted
\* function and of the function reduce returns.
C5_EntryPreserved == EbbPos(func, entry_block(input)) # 0

\* C6: reduce comes to an end, whatever the oracle answers (here even a
\* panic counts as an end): every mutate call and every loop terminates.
C6_ReduceTerminates == <>(pc \in Returned \cup {"panic"})

\* C7: the crash message reduce returns is the oracle's message on the
\* function it returns, which is the last accepted function.
C7_MessageOfReturnedFunction ==
  pc = "ok" => /\ result.func = func
               /\ check_for_crash(oracle, result.func).crash
               /\ result.msg = check_for_crash(oracle, result.func).msg

\* The returned message differs from the message on the input.
C7_Witness ==
  /\ pc = "ok"
  /\ result.msg = check_for_crash(oracle, result.func).msg
  /\ result.msg # check_for_crash(oracle, input).msg

\* C8: a second run of reduce on the same input with the same oracle makes
\* the same candidates and the same oracle calls in the same order, and ends
\* as the first did, with the same function and message, whatever the order
\* of the hash maps of either run.
C8_SameRunTwice ==
  run = 2 => /\ Len(log) <= Len(first.log)
             /\ \A k \in 1..Len(log) : log[k] = first.log[k]
             /\ pc \in {"ok", "err", "panic"}
                  => /\ pc = first.pc
                     /\ result = first.result
                     /\ log = first.log

\* The second run has returned, having rebuilt tables from usage maps of two
\* keys.
C8_Witness ==
  /\ run = 2 /\ pc = "ok"
  /\ Len(input.ext_funcs) = 2 /\ Len(input.signatures) = 3
  /\ Len(result.func.ext_funcs) = 2 /\ Len(result.func.signatures) = 2
  /\ Len(log) > 2

\* C9: after a pass another pass is started exactly when an
\* ExpandedOrShrinked candidate was accepted in the pass and fewer than 100
\* passes have run; the progress flag is reset when a pass starts.
C9_PassLoopCondition ==
  [][ /\ (pc = "phase" /\ phase >= NumPhases)
         => /\ pc' \in {"pass", "final"}
            /\ pc' = "pass" <=> (shrunk /\ pass_idx + 1 < MaxPasses)
      /\ pc = "pass" => ~should_keep_reducing' ]_vars

\* A second pass starts, and a pass ends in which only Changed candidates
\* were accepted.
C9_Witness ==
  /\ pc = "phase" /\ phase >= NumPhases
  /\ pass_idx = 1
  /\ ~shrunk
  /\ func # resolve_aliases(input)

\* C10: a Skip candidate is not submitted to the oracle, does not become F,
\* does not reach did_crash and does not set the progress flag; the driver
\* goes on with the next mutate call of the same mutator.
C10_SkipNotSubmitted ==
  [][ (pc = "mutated" /\ status = "Skip")
      => /\ ncalls' = ncalls
         /\ func' = func
         /\ mutator' = mutator
         /\ should_keep_reducing' = should_keep_reducing
         /\ phase' = phase
         /\ pc' = "loop" ]_vars

C10_Witness == pc = "mutated" /\ status = "Skip" /\ cand = func

\* C11: mutate works on a clone: from the mutate call to the oracle's Succeed
\* on the candidate no step changes the accepted function F, the progress
\* flag or the pass and phase counters; F changes only when the oracle
\* returned Crash on the candidate, and then F becomes the candidate.
C11_RejectedLeavesF ==
  [][ /\ (pc \in {"loop", "merge", "mutated"} /\ func' # func)
         => /\ pc = "mutated" /\ ~is_skip(status)
            /\ check_for_crash(oracle, cand).crash
            /\ func' = cand
      /\ (pc \in {"loop", "merge"}
             \/ (pc = "mutated" /\ ~check_for_crash(oracle, cand).crash))
         => /\ func' = func
            /\ input' = input
            /\ should_keep_reducing' = should_keep_reducing
            /\ pass_idx' = pass_idx ]_vars

\* A candidate that differs from F was submitted and rejected, and the
\* mutator's cursor has moved on from where the phase started.
C11_Witness ==
  /\ pc = "loop" /\ run = 1
  /\ Len(log) > 1
  /\ log[Len(log)].what \in {"ExpandedOrShrinked", "Changed"}
  /\ log[Len(log)].func # func
  /\ inst_count(log[Len(log)].func) < inst_count(func)
  /\ mutator # new_mutator(phase, func).mut

\* C12: did_crash is called once for each accepted candidate, after the
\* oracle returned Crash on it and F became it, and before the next mutate
\* call; on MergeBlocks it puts the cursor back on the block merged into.
\* It is not called for a rejected candidate or for a Skip candidate.
C12_DidCrashAfterAccept ==
  [][ /\ (pc = "mutated" /\ ~is_skip(status)
                         /\ check_for_crash(oracle, cand).crash)
         => /\ pc' = "accepted" /\ func' = cand
            /\ ndid' = ndid /\ mutator' = mutator
      /\ (pc = "mutated" /\ (status = "Skip"
                              \/ ~check_for_crash(oracle, cand).crash))
         => /\ pc' = "loop"
            /\ ndid' = ndid /\ mutator' = mutator
      /\ pc = "accepted"
         => /\ pc' = "loop" /\ func' = func
            /\ ndid' = ndid + 1
            /\ mutator' = IF mutator.name = "merge blocks"
                          THEN [mutator EXCEPT !.ebb = mutator.prev_ebb]
                          ELSE mutator
      /\ (ndid' # ndid /\ run' = run) => pc = "accepted" ]_vars

\* did_crash has been called for an accepted merge of two blocks, after
\* calls for candidates of other mutators.
C12_Witness ==
  /\ pc = "loop" /\ ndid >= 2
  /\ mutator.name = "merge blocks"
  /\ mutator.prev_ebb # None /\ mutator.ebb = mutator.prev_ebb
  /\ log[Len(log)].func = func
  /\ log[Len(log)].what = "ExpandedOrShrinked"

\* C13: check_for_crash returns Succeed when the verifier reports an error
\* or panics, and then the backend was not run; in a build that is not a
\* test build it returns Succeed when compile_and_emit returns, with Ok or
\* with Err, and Crash(m) exactly when compile_and_emit panics, m being the
\* text of a &str or String payload and "Box<Any>" for any other payload.
\* Under the oracle's profile the call returns what the driver's
\* check_for_crash says.
C13_OracleClassification ==
  /\ "backend" \in ran => ("verifier" \in ran /\ env.verifier = "ok")
  /\ cpc = "done"
       => /\ "verifier" \in ran
          /\ env.verifier \in {"error", "panic"}
               => (cres = Succeed /\ "backend" \notin ran)
          /\ (env.verifier = "ok" /\ ~env.test)
               => /\ "backend" \in ran
                  /\ env.backend \in {"ok", "error"} => cres = Succeed
                  /\ env.backend = "panic"
                       => /\ cres.crash
                          /\ env.payload.type \in {"str", "String"}
                               => cres.msg = env.payload.text
                          /\ env.payload.type = "other"
                               => cres.msg = "Box<Any>"
          /\ env = ProfileEnv(oracle, func)
               => cres = check_for_crash(oracle, func)

\* The backend panicked with a String that names a call, and the call
\* returned Crash with that text.
C13_Witness ==
  /\ cpc = "done" /\ ~env.test
  /\ ran = {"verifier", "backend"}
  /\ env.backend = "panic" /\ env.payload = Payload("String", "call")
  /\ cres = Crash("call")

\* C14: when a call of check_for_crash has returned, on whichever path, the
\* process-wide panic hook is the hook that was installed when the call
\* was made; the silent hook is installed only while the backend runs.
C14_HookRestored ==
  /\ cpc = "done" => (panic_hook = hook_before /\ panic_hook # SilentHook)
  /\ panic_hook = SilentHook => cpc \in {"compile", "restore"}
  /\ cpc \in {"silence", "compile", "restore"}
       => old_panic_hook = hook_before

\* The call returns after a backend panic, and the program's own hook is
\* installed again.
C14_Witness ==
  /\ cpc = "done" /\ cres.crash
  /\ "backend" \in ran
  /\ hook_before = "custom" /\ panic_hook = "custom"

\* C15 as claimed: in a test build check_for_crash returns
\* Crash("test crash") exactly when an instruction of the layout is a call,
\* and Succeed otherwise.
C15_TestOracle ==
  (cpc = "done" /\ env.test)
    => cres = IF \E i \in 1..Len(func.dfg) :
                    InstPos(func, i) # 0 /\ func.dfg[i].opcode = "call"
              THEN Crash("test crash")
              ELSE Succeed

\* C15 as amended: in a test build check_for_crash returns
\* Crash("test crash") exactly when the verifier neither reports an error
\* nor panics and an instruction of the layout is a call, and Succeed
\* otherwise; the backend is not run.
C15_TestOracleAfterVerifier ==
  (cpc = "done" /\ env.test)
    => /\ cres = IF /\ env.verifier = "ok"
                    /\ \E i \in 1..Len(func.dfg) :
                         InstPos(func, i) # 0 /\ func.dfg[i].opcode = "call"
                 THEN Crash("test crash")
                 ELSE Succeed
       /\ "backend" \notin ran
       /\ panic_hook = hook_before

\* A test build's call has returned Crash("test crash") on a function of a
\* call and two other instructions, though the backend would not panic.
C15_Witness ==
  /\ cpc = "done" /\ env.test /\ env.backend = "ok"
  /\ cres = Crash("test crash")
  /\ inst_count(func) = 3
  /\ Cardinality({i \in 1..Len(func.dfg) : func.dfg[i].opcode = "call"}) = 1

\* C16: when the RemoveInst phase of the first pass has ended without an
\* accepted candidate, the candidates submitted in it were, in layout order,
\* the function without its k-th instruction (and without the block this
\* empties), once for every instruction of the function up to the last.
C16_RemoveInstOffersAll ==
  (pc = "phase" /\ phase = 1 /\ pass_idx = 0 /\ ndid = 0)
    => /\ Len(log) = 1 + inst_count(func)
       /\ \A k \in 1..inst_count(func) :
            LET i == layout_insts(func)[k]
                e == func.layout[InstPos(func, i)].ebb
                g == remove_inst(func, i)
            IN /\ k + 1 <= Len(log)
               /\ log[k + 1].what = "ExpandedOrShrinked"
               /\ log[k + 1].func
                    = IF ebb_insts(g, e) = <<>> THEN remove_ebb(g, e) ELSE g

\* C17: the inputs having no empty block, every block in the layout of the
\* accepted function holds an instruction, whatever was accepted; the
\* cursor of an instruction mutator never lands on an empty block, and
\* reduce does not panic in `expect("no inst")`: if it panics, it is at the
\* final check.
C17_NoEmptyBlocks ==
  /\ \A k \in 1..Len(func.layout) : func.layout[k].insts # <<>>
  /\ (pc = "loop" /\ phase \in {0, 1, 2})
       => next_inst_ret_prev(func, mutator.ebb, mutator.inst).kind # "panic"
  /\ pc = "panic" => log[Len(log)].what = "final"

\* RemoveInst has emptied a block and removed it, the candidate was
\* accepted, and the cursor is on the first instruction of the next block.
C17_Witness ==
  /\ pc = "loop" /\ phase = 0 /\ ndid >= 1
  /\ ebb_count(func) >= 1
  /\ ebb_count(func) < ebb_count(input)
  /\ log[Len(log)].func = func
  /\ mutator.inst = first_inst(func, mutator.ebb)

\* C18: ReplaceInstWithConst::mutate on the instruction I under the cursor.
\* With no result, or I a constant already: the function unchanged, Skip.
\* With one result: the layout is unchanged and I is a constant with the
\* result it had, Changed.  With n >= 2 results: I is out of the layout
\* and n new constants stand where it stood, the q-th defining the q-th
\* result of I and nothing else, so that there are n - 1 instructions
\* more; the rest of the layout is unchanged, ExpandedOrShrinked.
C18_ReplaceWithConstCases ==
  [][ (pc = "loop" /\ phase = 1 /\ pc' = "mutated")
      => LET I   == mutator.inst
             res == func.dfg[I].results
             n   == Len(res)
             b   == InstPos(func, I)
             old == func.layout[b].insts
             new == cand'.layout[b].insts
             j   == IndexOf(old, I)
         IN /\ b # 0
            /\ (n = 0 \/ func.dfg[I].opcode \in ConstOpcodes)
                 => (cand' = func /\ status' = "Skip")
            /\ (n = 1 /\ func.dfg[I].opcode \notin ConstOpcodes)
                 => /\ status' = "Changed"
                    /\ cand'.layout = func.layout
                    /\ Len(cand'.dfg) = Len(func.dfg)
                    /\ cand'.dfg[I].opcode \in ConstOpcodes
                    /\ cand'.dfg[I].results = res
                    /\ \A i \in 1..Len(func.dfg) :
                         i # I => cand'.dfg[i] = func.dfg[i]
            /\ (n >= 2 /\ func.dfg[I].opcode \notin ConstOpcodes)
                 => /\ status' = "ExpandedOrShrinked"
                    /\ inst_count(cand') = inst_count(func) + n - 1
                    /\ InstPos(cand', I) = 0
                    /\ Len(cand'.layout) = Len(func.layout)
                    /\ \A k \in 1..Len(func.layout) :
                         k # b => cand'.layout[k] = func.layout[k]
                    /\ Len(new) = Len(old) + n - 1
                    /\ \A q \in 1..(j - 1) : new[q] = old[q]
                    /\ \A q \in (j + 1)..Len(old) : new[q + n - 1] = old[q]
                    /\ \A q \in 1..n :
                         /\ new[j + q - 1] > Len(func.dfg)
                         /\ cand'.dfg[new[j + q - 1]].opcode \in ConstOpcodes
                         /\ cand'.dfg[new[j + q - 1]].results = <<res[q]>> ]_vars

\* A two-result instruction followed by another instruction was replaced
\* by two constants.
C18_Witness ==
  /\ pc = "mutated" /\ phase = 1
  /\ status = "ExpandedOrShrinked"
  /\ inst_count(cand) = inst_count(func) + 1
  /\ inst_count(func) = MaxInsts
  /\ \E i \in 1..Len(func.dfg) :
       /\ Len(func.dfg[i].results) = 2
       /\ InstPos(func, i) # 0 /\ InstPos(cand, i) = 0
       /\ next_inst(func, i) # None

\* C19: in the RemoveUnusedEntities phase the mutator's index is the number
\* of candidates it has yielded, at most four; the candidate yielded at
\* index 0 differs from F in the external functions (and the instructions
\* that refer to them) only, at 1 in the signatures (and their users), at
\* 2 in the stack slots, at 3 in the global values; each has status
\* Changed and the layout of F, and the index is one more after the call
\* whatever the oracle answers.  The phase ends when the index is 4 (or at
\* 3, by the pre-check of the global values), and nothing in it sets the
\* progress flag.
C19_UnusedEntitiesSequence ==
  [][ (phase = 4 /\ pc \in {"loop", "mutated", "accepted"})
      => /\ mutator.kind = step /\ step <= 4
         /\ should_keep_reducing' = should_keep_reducing
         /\ (pc \in {"mutated", "accepted"} /\ phase' = 4)
              => mutator' = mutator
         /\ (pc = "loop" /\ pc' = "phase")
              => \/ mutator.kind = 4
                 \/ mutator.kind = 3 /\ HasCyclicGlobalValue(func)
         /\ (pc = "loop" /\ pc' = "mutated")
              => /\ mutator.kind <= 3
                 /\ mutator'.kind = mutator.kind + 1
                 /\ status' = "Changed"
                 /\ cand'.layout = func.layout
                 /\ ebb_count(cand') = ebb_count(func)
                 /\ inst_count(cand') = inst_count(func)
                 /\ mutator.kind # 0 => Len(cand'.ext_funcs) = Len(func.ext_funcs)
                 /\ mutator.kind # 1 => cand'.signatures = func.signatures
                 /\ mutator.kind # 2 => cand'.stack_slots = func.stack_slots
                 /\ mutator.kind # 3
                      => cand'.global_values = func.global_values
                 /\ mutator.kind \in {2, 3} => cand'.ext_funcs = func.ext_funcs
                 /\ Len(cand'.ext_funcs) <= Len(func.ext_funcs)
                 /\ Len(cand'.signatures) <= Len(func.signatures)
                 /\ Len(cand'.stack_slots) <= Len(func.stack_slots)
                 /\ Len(cand'.global_values) <= Len(func.global_values) ]_vars

\* Four candidates were yielded and the oracle rejected every one; the
\* next call returns None.
C19_Witness ==
  /\ pc = "loop" /\ phase = 4 /\ ndid = 0
  /\ mutator.kind = 4 /\ step = 4
  /\ \A h \in HashOrders : mutate(mutator, func, h).kind = "none"
  /\ Len(log) >= 5
  /\ \A k \in 0..3 : log[Len(log) - k].what = "Changed"
  /\ log[Len(log) - 1].func.stack_slots = <<>>
  /\ Len(func.stack_slots) = 1

\* C20: when the RemoveUnusedEntities mutator is at index 3 and an entry of
\* the global-value table is a Load or an IAddImm, mutate returns None: no
\* candidate is made or submitted, F is left as it is, the driver goes on
\* to the MergeBlocks phase of the same pass, and reduce comes to an end.
C20_CyclePreCheck ==
  /\ [][ (pc = "loop" /\ phase = 4 /\ mutator.kind = 3
                      /\ HasCyclicGlobalValue(func))
          => /\ pc' = "phase" /\ phase' = 5
             /\ pass_idx' = pass_idx
             /\ func' = func
             /\ ncalls' = ncalls /\ log' = log ]_vars
  /\ (pc = "loop" /\ phase = 4 /\ mutator.kind = 3
                  /\ HasCyclicGlobalValue(func))
       ~> (pc \in Returned \cup {"panic"})

\* The users of the table that a RemoveUnusedEntities candidate of index k
\* rebuilds, as pairs <<"inst", instruction>> or <<"ext_func", entry>>.
C21_Users(f, k) ==
  {<<"inst", i>> : i \in {j \in 1..Len(f.dfg) :
       /\ InstPos(f, j) # 0
       /\ f.dfg[j].opcode \in (IF k = 0 THEN {"call", "func_addr"}
                                ELSE IF k = 1 THEN {"call_indirect"}
                                ELSE IF k = 2
                                THEN {"stack_load", "stack_store",
                                      "regspill", "regfill"}
                                ELSE {"global_value"})}}
    \cup (IF k = 1 THEN {<<"ext_func", e>> : e \in 1..Len(f.ext_funcs)}
          ELSE {})

\* The handle user u holds in function f.
C21_Handle(f, u) ==
  IF u[1] = "inst" THEN f.dfg[u[2]].ref ELSE f.ext_funcs[u[2]].signature

\* The table that index k rebuilds.
C21_Table(f, k) ==
  IF k = 0 THEN f.ext_funcs
  ELSE IF k = 1 THEN f.signatures
  ELSE IF k = 2 THEN f.stack_slots
  ELSE f.global_values

\* C21: the table a RemoveUnusedEntities candidate has rebuilt holds the
\* entries of the old table that had a user, and no other, in the order
\* they had, and every user holds a handle of the new table whose entry
\* has the data of the entry the user referred to; the instructions that
\* are not users and the other tables are as they were.
C21_CompactionFaithful ==
  [][ (pc = "loop" /\ phase = 4 /\ pc' = "mutated")
      => LET k     == mutator.kind
             users == C21_Users(func, k)
             old   == C21_Table(func, k)
             new   == C21_Table(cand', k)
             used  == {C21_Handle(func, u) : u \in users}
         IN /\ k \in 0..3
            /\ C21_Users(cand', k) = users
            /\ Len(new) = Cardinality(used)
            /\ \A u \in users :
                 /\ C21_Handle(cand', u) \in 1..Len(new)
                 /\ new[C21_Handle(cand', u)] = old[C21_Handle(func, u)]
            /\ \A u, v \in users :
                 C21_Handle(func, u) < C21_Handle(func, v)
                   <=> C21_Handle(cand', u) < C21_Handle(cand', v)
            /\ \A q \in 1..Len(new) :
                 \E u \in users : C21_Handle(cand', u) = q
            /\ cand'.layout = func.layout
            /\ Len(cand'.dfg) = Len(func.dfg)
            /\ \A i \in 1..Len(func.dfg) :
                 <<"inst", i>> \notin users => cand'.dfg[i] = func.dfg[i]
            /\ \A j \in (0..3) \ {k} :
                 j # 0 \/ k # 1 => C21_Table(cand', j) = C21_Table(func, j)
            /\ k = 1 => /\ Len(cand'.ext_funcs) = Len(func.ext_funcs)
                        /\ \A e \in 1..Len(func.ext_funcs) :
                             cand'.ext_funcs[e].name = func.ext_funcs[e].name
         ]_vars

\* The stack slots were rebuilt after the candidates of the external
\* functions and the signatures had been accepted: the second of two slots
\* is the only one in use and is now the first, two instructions share the
\* external function left, of whose signature the handle has changed.
C21_Witness ==
  /\ pc = "mutated" /\ phase = 4 /\ mutator.kind = 3 /\ ndid = 2
  /\ Len(input.stack_slots) = 2 /\ cand.stack_slots = <<"ss1">>
  /\ \E i \in 1..Len(cand.dfg) :
       /\ InstPos(cand, i) # 0 /\ cand.dfg[i].opcode = "stack_load"
       /\ input.dfg[i].ref = 2 /\ cand.dfg[i].ref = 1
  /\ \E i, j \in 1..Len(cand.dfg) :
       /\ i # j /\ InstPos(cand, i) # 0 /\ InstPos(cand, j) # 0
       /\ cand.dfg[i].opcode = "call" /\ cand.dfg[j].opcode = "func_addr"
       /\ cand.dfg[i].ref = 1 /\ cand.dfg[j].ref = 1
  /\ cand.ext_funcs = <<[name |-> "f1", signature |-> 1]>>
  /\ cand.signatures = <<"sig2">>

\* The sequence without its elements equal to x.
C22_Without(s, x) == SelectSeq(s, LAMBDA y : y # x)

\* C22: MergeBlocks::mutate on the block ebb after the cursor.  When ebb
\* has not exactly one predecessor, the candidate is F and its status is
\* Skip.  When it has one, the branch B in block P, the candidate is F
\* without ebb and without B, the instructions of P being those P had
\* without B, followed by those ebb had, in their order; there is one
\* block less and one instruction less, every other block is as it was
\* and the blocks are in the order they had; ExpandedOrShrinked.
C22_MergeCandidateShape ==
  [][ /\ (pc = "loop" /\ phase = 5 /\ pc' \in {"mutated", "merge"})
         => LET ebb == next_ebb(func, mutator.ebb)
            IN /\ ebb # None
               /\ mutator'.ebb = ebb
               /\ pc' = "merge" <=> Cardinality(Preds(func, ebb)) = 1
               /\ pc' = "mutated" => (cand' = func /\ status' = "Skip")
      /\ (pc = "merge" /\ pc' = "mutated")
         => LET ebb  == mutator.ebb
                pred == CHOOSE p \in Preds(func, ebb) : TRUE
                P    == pred[1]
                B    == pred[2]
            IN /\ Cardinality(Preds(func, ebb)) = 1
               /\ status' = "ExpandedOrShrinked"
               /\ EbbPos(cand', ebb) = 0
               /\ InstPos(cand', B) = 0
               /\ ebb_insts(cand', P)
                    = C22_Without(ebb_insts(func, P), B) \o ebb_insts(func, ebb)
               /\ ebb_count(cand') = ebb_count(func) - 1
               /\ inst_count(cand') = inst_count(func) - 1
               /\ ebbs(cand') = C22_Without(ebbs(func), ebb)
               /\ \A k \in 1..Len(func.layout) :
                    func.layout[k].ebb \notin {ebb, P}
                      => ebb_insts(cand', func.layout[k].ebb)
                           = func.layout[k].insts ]_vars

\* C23: the block MergeBlocks::mutate examines is the one after the cursor
\* in the layout of F, and the cursor is put on it.  After a Skip, and
\* after the oracle rejected the merged candidate, the cursor is the block
\* examined, which is in the layout of F, unchanged.  After the merge of
\* ebb into the block P of its predecessor was accepted, did_crash puts
\* the cursor on P, which is in the layout of the new F, so that the next
\* call examines the block after P.
C23_MergeRollback ==
  [][ /\ (pc = "loop" /\ phase = 5 /\ pc' \in {"merge", "mutated"})
         => /\ next_ebb(func, mutator.ebb) # None
            /\ mutator'.ebb = next_ebb(func, mutator.ebb)
            /\ pc' = "merge"
                 => \E p \in Preds(func, mutator'.ebb) : mutator'.prev_ebb = p[1]
      /\ pc = "merge" => (mutator' = mutator /\ func' = func)
      /\ (pc = "mutated" /\ phase = 5 /\ pc' = "loop")
         => /\ mutator' = mutator
            /\ func' = func
            /\ EbbPos(func', mutator'.ebb) # 0
      /\ (pc = "mutated" /\ phase = 5 /\ pc' = "accepted")
         => mutator' = mutator
      /\ (pc = "accepted" /\ phase = 5)
         => /\ mutator'.ebb = mutator.prev_ebb
            /\ func' = func
            /\ EbbPos(func', mutator'.ebb) # 0 ]_vars

\* C24: whenever RemoveInst, ReplaceInstWithConst or ReplaceInstWithTrap
\* is about to be asked for a candidate, the instruction of its cursor is
\* in the layout of the accepted function, in the block of the cursor,
\* which is in the layout.
C24_InstCursorValid ==
  (pc = "loop" /\ phase \in {0, 1, 2})
    => /\ mutator.inst # None
       /\ InstPos(func, mutator.inst) # 0
       /\ EbbPos(func, mutator.ebb) # 0
       /\ InstPos(func, mutator.inst) = EbbPos(func, mutator.ebb)

\* An instruction mutator that replaces is asked for its third candidate
\* or a later one: a candidate was skipped, the last one was rejected,
\* candidates were accepted before and a block has gone with them, and the
\* cursor is on an instruction that is not the first of its block.
C24_Witness ==
  /\ pc = "loop" /\ phase \in {1, 2} /\ step >= 2 /\ ndid >= 1
  /\ \E k \in 1..Len(log) : log[k].what = "Skip"
  /\ log[Len(log)].what # "Skip" /\ log[Len(log)].func # func
  /\ ebb_count(func) < ebb_count(input)
  /\ prev_inst(func, mutator.inst) # None
  /\ InstPos(func, mutator.inst) = EbbPos(func, mutator.ebb)

\* C25: whenever RemoveEbb or MergeBlocks is about to be asked for a
\* candidate, the block of its cursor is in the layout of the accepted
\* function, so that next_ebb leads on to the blocks that remain.
C25_EbbCursorValid ==
  (pc = "loop" /\ phase \in {3, 5}) => EbbPos(func, mutator.ebb) # 0

\* The value mutation_count has for the mutator of phase ph on function f.
C26_Count(ph, f) ==
  IF ph \in {0, 1, 2} THEN inst_count(f)
  ELSE IF ph = 3 THEN ebb_count(f)
  ELSE IF ph = 4 THEN 4
  ELSE ebb_count(f) - 1

\* C26 as claimed: the progress bar is given mutation_count of F at the
\* start of the phase, and the number of candidates the mutator yields in
\* the phase, Skip candidates included, is never above it; the candidate
\* loop ends when mutate returns None (or after 10000 turns) and not
\* because that number was reached.
C26_CountBoundsCandidates ==
  [][ /\ pc' \in {"loop", "mutated", "accepted"} => step' <= progress_len'
      /\ (pc = "phase" /\ pc' = "loop")
         => progress_len' = C26_Count(phase, func)
      /\ (pc = "loop" /\ pc' = "phase")
         => \/ step = MaxSteps
            \/ \A h \in HashOrders : mutate(mutator, func, h).kind = "none"
      /\ (pc # "phase" /\ run' = run) => progress_len' = progress_len ]_vars

\* C26 as amended: the progress bar is given mutation_count of F at the
\* start of the phase.  For every mutator but MergeBlocks the number of
\* candidates yielded in the phase, Skip candidates included, is never
\* above it.  For MergeBlocks it bounds the merges accepted in the phase,
\* each of which takes one block out of F, and not the candidates.  The
\* candidate loop ends when mutate returns None (or after 10000 turns)
\* and not because the number was reached.
C26_CountBoundsAllButMergeCandidates ==
  [][ /\ (pc' \in {"loop", "mutated", "accepted"} /\ phase' # 5)
         => step' <= progress_len'
      /\ (pc' \in {"loop", "merge", "mutated", "accepted"} /\ phase' = 5)
         => /\ ebb_count(func') >= 1
            /\ progress_len' + 1 - ebb_count(func') \in 0..progress_len'
      /\ (pc = "phase" /\ pc' = "loop")
         => progress_len' = C26_Count(phase, func)
      /\ (pc = "mutated" /\ pc' = "accepted" /\ phase = 5)
         => ebb_count(func') = ebb_count(func) - 1
      /\ (pc \in {"loop", "merge", "mutated", "accepted"} /\ phase = 5
             /\ pc' # "accepted" /\ run' = run)
         => ebb_count(func') = ebb_count(func)
      /\ (pc = "loop" /\ pc' = "phase")
         => \/ step = MaxSteps
            \/ \A h \in HashOrders : mutate(mutator, func, h).kind = "none"
      /\ (pc # "phase" /\ run' = run) => progress_len' = progress_len ]_vars

\* MergeBlocks has yielded three candidates for a function of three
\* blocks, the second of them an accepted merge into the entry block,
\* and is asked for another.
C26_Witness ==
  /\ pc = "loop" /\ phase = 5
  /\ progress_len = 2 /\ step = 3
  /\ ebb_count(func) = 2
  /\ log[Len(log)].what = "Skip"
  /\ log[Len(log) - 1].what = "ExpandedOrShrinked"
  /\ log[Len(log) - 1].func = func
  /\ log[Len(log) - 2].what = "Skip"

\* C27: in every pass the phases run in the order RemoveInst,
\* ReplaceInstWithConst, ReplaceInstWithTrap, RemoveEbb, RemoveUnusedEntities,
\* MergeBlocks, each once: a pass starts at phase 0, the phase index moves
\* only by one and only when a candidate loop ends, a pass ends only at
\* phase 6, and the mutator of a phase keeps its kind.  The mutator a phase
\* starts with is built from the accepted function alone: its cursor is the
\* entry block (and that block's first instruction), or entity kind 0, and
\* holds nothing of the mutator before it.
C27_PhaseNames ==
  <<"remove inst", "replace inst with const", "replace inst with trap",
    "remove ebb", "remove unused entities", "merge blocks">>

C27_Fresh(ph, f) ==
  [name |-> C27_PhaseNames[ph + 1],
   ebb |-> IF ph = 4 THEN None ELSE f.layout[1].ebb,
   inst |-> IF ph \in {0, 1, 2} THEN f.layout[1].insts[1] ELSE None,
   kind |-> 0,
   prev_ebb |-> None]

C27_PhaseOrderFreshMutator ==
  [][ /\ (pc = "pass" /\ pc' = "phase") => phase' = 0
      /\ (pc = "phase" /\ pc' = "loop")
         => /\ phase \in 0..(NumPhases - 1)
            /\ phase' = phase
            /\ func' = func
            /\ step' = 0
            /\ mutator' = C27_Fresh(phase, func)
      /\ (pc = "loop" /\ pc' = "phase") => phase' = phase + 1
      /\ (pc = "phase" /\ pc' \in {"pass", "final"}) => phase = NumPhases
      /\ (phase' # phase /\ run' = run)
         => \/ pc = "pass" /\ pc' = "phase"
            \/ pc = "loop" /\ pc' = "phase"
      /\ (pc \notin {"phase", "ok"} /\ pc' # "panic")
         => mutator'.name = mutator.name ]_vars

\* A later pass starts its RemoveEbb or MergeBlocks phase on a function that
\* was reduced, at the entry block, after the mutator before it had left
\* its cursor elsewhere.
C27_Witness ==
  /\ pc = "loop"
  /\ step = 0
  /\ pass_idx >= 1
  /\ phase \in {3, 5}
  /\ func # input
  /\ ebb_count(func) >= 2
  /\ mutator = C27_Fresh(phase, func)
  /\ ndid >= 1

\* C28: the accepted function always has a block and an instruction, and
\* its first block has a first instruction; so no mutator constructor fails
\* on it and MergeBlocks::mutation_count does not go below zero.
C28_NonEmptyFunction ==
  /\ ebb_count(func) >= 1
  /\ inst_count(func) >= 1
  /\ entry_block(func) # None
  /\ first_inst(func, entry_block(func)) # None
  /\ \A ph \in 0..(NumPhases - 1) :
       /\ ~new_mutator(ph, func).panic
       /\ mutation_count(new_mutator(ph, func).mut, func) >= 0
  /\ progress_len >= 0

\* MergeBlocks is constructed on a function that accepted mutations have
\* reduced to one block of one instruction: ebb_count - 1 is 0.
C28_Witness ==
  /\ pc = "loop"
  /\ phase = 5
  /\ step = 0
  /\ ebb_count(input) >= 2
  /\ ebb_count(func) = 1
  /\ inst_count(func) = 1
  /\ progress_len = 0
  /\ ndid >= 1

\* C29: the loop of MergeBlocks::mutate that moves the instructions of a
\* block with one predecessor to the predecessor's block comes to its end,
\* also when the predecessor branch is in the block itself: once mutate is
\* in the loop it returns the merged candidate.
C29_MoveLoopTerminates == (pc = "merge") ~> (pc = "mutated")
====
